---------------------------- MODULE Spec2Model ----------------------------
(***************************************************************************)
(* Model of keboola/component-airtable: the record flattener of            *)
(* src/src/transformation.py (flatten_dict, ColumnType, Table) and the     *)
(* batch accumulation of Component.run in src/src/component.py.            *)
(*                                                                         *)
(* JSON values are tagged records:                                         *)
(*   [t |-> "null"], [t |-> "bool", b], [t |-> "int", i], [t |-> "str", s] *)
(*   [t |-> "obj", kv |-> sequence of <<key, value>>]   (a Python dict,    *)
(*                                        keys unique, insertion ordered)  *)
(*   [t |-> "arr", xs |-> sequence of values]           (a Python list)    *)
(* Python dicts that are not JSON values (a row under construction, a      *)
(* table's child_tables) are the bare sequence of <<key, value>> pairs.    *)
(***************************************************************************)
EXTENDS Integers, Sequences, FiniteSets, TLC

VARIABLES pc, batches, acc, id_arg, table, before, arg, held, err, op, calls

vars == <<pc, batches, acc, id_arg, table, before, arg, held, err, op, calls>>

---------------------------------------------------------------------------
(* Bounds of the model.                                                    *)

\* direct add_row calls
MaxCalls == 3
\* records the source yields in all
MaxRecords == 3
\* records in one batch of the source
MaxBatch == 2
\* batches the source yields
MaxBatches == 2

---------------------------------------------------------------------------
(* Module constants of transformation.py and component.py.                 *)

SUBOBJECT_SEP == "_"
CHILD_TABLE_SEP == "__"
COMPUTED_ID_COLUMN_NAME == "computed_id"
PARENT_ID_COLUMN_NAME == "parent_id"
RECORD_ID_FIELD_NAME == "record_id"
RECORD_CREATED_TIME_FIELD_NAME == "record_created_time"
\* the name run() gets from _get_result_table_name
DESTINATION_TABLE_NAME == "tbl"

---------------------------------------------------------------------------
(* JSON values.                                                            *)

JNull == [t |-> "null"]
JBool(x) == [t |-> "bool", b |-> x]
JInt(x) == [t |-> "int", i |-> x]
JStr(x) == [t |-> "str", s |-> x]
JObj(x) == [t |-> "obj", kv |-> x]
JArr(x) == [t |-> "arr", xs |-> x]

\* the outcome "no exception"
NoErr == "none"
\* outcomes of a call that raised
UnexpectedType == "ValueError: unexpected field data type"
EmptyTable == "ValueError: requested table is empty"
MissingKey == "KeyError"
\* no Table object / no record object
NoTable == [none |-> TRUE]
NoRecord == [t |-> "none"]

(* Python dict operations on a sequence of <<key, value>> pairs.           *)
HasKey(d, k) == \E i \in 1..Len(d) : d[i][1] = k
Get(d, k) == d[CHOOSE i \in 1..Len(d) : d[i][1] = k][2]
\* d[k] = v: an existing key keeps its position, a new key goes last
Put(d, k, v) ==
    IF HasKey(d, k)
    THEN [i \in 1..Len(d) |-> IF d[i][1] = k THEN <<k, v>> ELSE d[i]]
    ELSE Append(d, <<k, v>>)
Keys(d) == {d[i][1] : i \in 1..Len(d)}

\* a variant of the falsy test that skips None only
FalsyOnlyNone(v) == v.t = "null"

\* Python truthiness: `not value` of add_value_to_row
Falsy(v) ==
    CASE v.t = "null" -> TRUE
      [] v.t = "bool" -> ~v.b
      [] v.t = "int" -> v.i = 0
      [] v.t = "str" -> v.s = ""
      [] v.t = "obj" -> v.kv = <<>>
      [] v.t = "arr" -> v.xs = <<>>

\* is_type(val, ELEMENTARY_TYPE)
IsElementary(v) == v.t \in {"null", "bool", "int", "str"}

---------------------------------------------------------------------------
(* json.dumps and hashlib.md5.                                             *)

\* the keys of the model's records in Python's string order (sort_keys)
SortedKeys ==
    << "", "a", "a_b", "addr", "b", "b_c", "bad", "c", "city", "code",
       "computed_id", "count", "d", "flag", "id", "items", "name", "none",
       "parent", "parent_id", "record_created_time", "record_id", "sub",
       "tags", "x", "zip" >>
KeyRank(k) == CHOOSE i \in 1..Len(SortedKeys) : SortedKeys[i] = k

RECURSIVE InsertByKey(_, _)
InsertByKey(sorted, e) ==
    IF sorted = <<>> THEN <<e>>
    ELSE IF KeyRank(e[1]) < KeyRank(sorted[1][1]) THEN <<e>> \o sorted
    ELSE <<sorted[1]>> \o InsertByKey(Tail(sorted), e)

RECURSIVE SortByKey(_)
SortByKey(d) ==
    IF d = <<>> THEN <<>>
    ELSE InsertByKey(SortByKey(SubSeq(d, 1, Len(d) - 1)), d[Len(d)])

\* decimal text of the integers the records hold
IntText(n) ==
    CASE n = 0 -> "0" [] n = 1 -> "1" [] n = 2 -> "2" [] n = 3 -> "3"

RECURSIVE dumps(_, _)
RECURSIVE dumps_list(_, _)
RECURSIVE dumps_members(_, _)
\* json.dumps(v, sort_keys=sort_keys) with the default separators ", " ": "
dumps(v, sort_keys) ==
    CASE v.t = "null" -> "null"
      [] v.t = "bool" -> (IF v.b THEN "true" ELSE "false")
      [] v.t = "int" -> IntText(v.i)
      [] v.t = "str" -> "\"" \o v.s \o "\""
      [] v.t = "arr" -> "[" \o dumps_list(v.xs, sort_keys) \o "]"
      [] v.t = "obj" ->
           "{" \o dumps_members(IF sort_keys THEN SortByKey(v.kv) ELSE v.kv,
                                sort_keys) \o "}"
dumps_list(xs, sort_keys) ==
    IF xs = <<>> THEN ""
    ELSE dumps(xs[1], sort_keys)
         \o (IF Len(xs) > 1 THEN ", " ELSE "")
         \o dumps_list(Tail(xs), sort_keys)
dumps_members(d, sort_keys) ==
    IF d = <<>> THEN ""
    ELSE "\"" \o d[1][1] \o "\": " \o dumps(d[1][2], sort_keys)
         \o (IF Len(d) > 1 THEN ", " ELSE "")
         \o dumps_members(Tail(d), sort_keys)

\* hashlib.md5(text).hexdigest(): an injective stand-in for the digest (the
\* text itself, marked); collisions of the real digest are outside the model
md5_hexdigest(text) == "md5<" \o text \o ">"

\* a variant of the surrogate id that serialises the keys in insertion order
surrogate_id_unsorted(row_dict) == JStr(md5_hexdigest(dumps(row_dict, FALSE)))

\* a variant of the id lookup without the digest as its default
surrogate_id_none(row_dict) == JNull

\* the default of row_dict.get(id_column_name, ...) in add_row
surrogate_id(row_dict) == JStr(md5_hexdigest(dumps(row_dict, TRUE)))

---------------------------------------------------------------------------
(* flatten_dict (called by add_value_to_row with parent_key = the column   *)
(* name, the default separator and flatten_lists = False).  An item is     *)
(* <<new_key, <<value, path>>>>: path is the chain of nested keys that     *)
(* leads from the flattened dictionary to the value, kept so that the      *)
(* in-place mutation of a nested list can be written back.                 *)

\* new_key = str(parent_key) + separator + key if parent_key else key
new_key_of(parent_key, separator, key) ==
    IF parent_key # "" THEN parent_key \o separator \o key ELSE key

\* dict(items): the first occurrence of a key fixes its position, the last
\* occurrence its value
RECURSIVE dict_of(_)
dict_of(items) ==
    IF items = <<>> THEN <<>>
    ELSE LET e == items[Len(items)]
         IN Put(dict_of(SubSeq(items, 1, Len(items) - 1)), e[1], e[2])

RECURSIVE flatten_items(_, _, _, _)
RECURSIVE flatten_dict(_, _, _, _)
\* the items list built by the loop over dictionary.items()
flatten_items(dictionary, parent_key, separator, path) ==
    IF dictionary = <<>> THEN <<>>
    ELSE LET key == dictionary[1][1]
             value == dictionary[1][2]
             new_key == new_key_of(parent_key, separator, key)
             here == IF value.t = "obj"
                     THEN flatten_dict(value.kv, new_key, separator,
                                       Append(path, key))
                     ELSE << <<new_key, <<value, Append(path, key)>> >> >>
         IN here \o flatten_items(Tail(dictionary), parent_key, separator, path)
flatten_dict(dictionary, parent_key, separator, path) ==
    dict_of(flatten_items(dictionary, parent_key, separator, path))

\* a variant of the classification that takes a list of scalars for a scalar
from_example_value_flat(example_value) ==
    IF example_value.t = "obj" THEN "OBJECT"
    ELSE IF example_value.t = "arr"
            /\ \E i \in 1..Len(example_value.xs) : example_value.xs[i].t = "obj"
    THEN IF \A i \in 1..Len(example_value.xs) : example_value.xs[i].t = "obj"
         THEN "ARRAY_OF_OBJECTS" ELSE "ValueError"
    ELSE IF example_value.t = "arr"
            /\ \E i \in 1..Len(example_value.xs) : example_value.xs[i].t = "arr"
    THEN "ValueError"
    ELSE "ELEMENTARY"

---------------------------------------------------------------------------
(* ColumnType.from_example_value: the first member of the enum, in its     *)
(* declaration order, whose type the value has (typeguard checks every     *)
(* element of a list); ValueError when none has.                           *)

from_example_value(example_value) ==
    IF IsElementary(example_value) THEN "ELEMENTARY"
    ELSE IF example_value.t = "obj" THEN "OBJECT"
    ELSE IF \A i \in 1..Len(example_value.xs) : IsElementary(example_value.xs[i])
         THEN "ARRAY_OF_ELEMENTARY"
    ELSE IF \A i \in 1..Len(example_value.xs) : example_value.xs[i].t = "obj"
         THEN "ARRAY_OF_OBJECTS"
    ELSE "ValueError"

---------------------------------------------------------------------------
(* KeboolaDeleteWhereSpec and Table.                                       *)

NoSpec == [none |-> TRUE]
KeboolaDeleteWhereSpec(column) ==
    [column |-> column, values |-> {}, operator |-> "eq"]

Table(name, id_column_name, delete_where_spec) ==
    [name |-> name, id_column_name |-> id_column_name, rows |-> <<>>,
     child_tables |-> <<>>, delete_where_spec |-> delete_where_spec]

\* the value at the end of a chain of nested keys replaced
RECURSIVE SetPath(_, _, _)
SetPath(v, path, new) ==
    IF path = <<>> THEN new
    ELSE JObj(Put(v.kv, path[1], SetPath(Get(v.kv, path[1]), Tail(path), new)))

(* Table.add_row.  Every operator returns                                  *)
(*   [self |-> the table after the call, row |-> processed_dict,           *)
(*    val |-> the argument after the in-place mutations, err |-> outcome]  *)
(* and an exception (err # NoErr) ends the call where it is raised, with   *)
(* the mutations made so far kept, as in Python.                           *)
RECURSIVE add_row(_, _)
RECURSIVE add_value_to_row(_, _, _, _)
RECURSIVE add_flattened(_, _, _, _, _)
RECURSIVE add_children(_, _, _, _, _)
RECURSIVE add_fields(_, _, _, _)

\* the rest of one turn of the loop over the child dictionaries, r being
\* what child_table.add_row(child_dict) returned (lines 133-134)
add_child_done(self, child_table_name, xs, i, row_dict, parent_id, r) ==
    IF r.err # NoErr
    THEN [self |-> [self EXCEPT !.child_tables =
                           Put(@, child_table_name, r.self)],
          row |-> row_dict, val |-> JArr([xs EXCEPT ![i] = r.val]),
          err |-> r.err]
    ELSE add_children(
           [self EXCEPT !.child_tables =
              Put(@, child_table_name,
                  [r.self EXCEPT !.delete_where_spec.values =
                                    @ \cup {parent_id}])],
           child_table_name, [xs EXCEPT ![i] = r.val], i + 1, row_dict)

\* for child_dict in value: ... (lines 128-134), from element i on;
\* row_dict[self.id_column_name] raises KeyError when the row has no id
add_children(self, child_table_name, xs, i, row_dict) ==
    IF i > Len(xs)
    THEN [self |-> self, row |-> row_dict, val |-> JArr(xs), err |-> NoErr]
    ELSE IF ~HasKey(row_dict, self.id_column_name)
    THEN [self |-> self, row |-> row_dict, val |-> JArr(xs), err |-> MissingKey]
    ELSE add_child_done(
           self, child_table_name, xs, i, row_dict,
           Get(row_dict, self.id_column_name),
           add_row(Get(self.child_tables, child_table_name),
                   JObj(Put(xs[i].kv, PARENT_ID_COLUMN_NAME,
                            Get(row_dict, self.id_column_name)))))

\* the rest of one turn of the loop over the flattened items, r being what
\* add_value_to_row returned; path leads to the item's value inside value
add_flattened_done(flattened_dict, value, i, path, r) ==
    IF r.err # NoErr
    THEN [self |-> r.self, row |-> r.row, val |-> SetPath(value, path, r.val),
          err |-> r.err]
    ELSE add_flattened(r.self, flattened_dict, SetPath(value, path, r.val),
                       i + 1, r.row)

\* for flattened_key, flattened_value in flattened_dict.items(): (108-109)
add_flattened(self, flattened_dict, value, i, row_dict) ==
    IF i > Len(flattened_dict)
    THEN [self |-> self, row |-> row_dict, val |-> value, err |-> NoErr]
    ELSE add_flattened_done(
           flattened_dict, value, i, flattened_dict[i][2][2],
           add_value_to_row(self, flattened_dict[i][1], flattened_dict[i][2][1],
                            row_dict))

\* the dispatch of add_value_to_row on the column type (lines 104-136)
add_value_of_type(self, column_name, value, row_dict, column_type) ==
    CASE column_type = "ValueError" ->
           [self |-> self, row |-> row_dict, val |-> value,
            err |-> UnexpectedType]
      [] column_type = "ELEMENTARY" ->
           [self |-> self, row |-> Put(row_dict, column_name, value),
            val |-> value, err |-> NoErr]
      [] column_type = "OBJECT" ->
           add_flattened(self,
                         flatten_dict(value.kv, column_name, SUBOBJECT_SEP, <<>>),
                         value, 1, row_dict)
      [] column_type = "ARRAY_OF_ELEMENTARY" ->
           [self |-> self,
            row |-> Put(row_dict, column_name, JStr(dumps(value, FALSE))),
            val |-> value, err |-> NoErr]
      [] column_type = "ARRAY_OF_OBJECTS" ->
           add_children(
             [self EXCEPT !.child_tables =
                Put(@, self.name \o CHILD_TABLE_SEP \o column_name,
                    IF HasKey(@, self.name \o CHILD_TABLE_SEP \o column_name)
                    THEN Get(@, self.name \o CHILD_TABLE_SEP \o column_name)
                    ELSE Table(self.name \o CHILD_TABLE_SEP \o column_name,
                               COMPUTED_ID_COLUMN_NAME,
                               KeboolaDeleteWhereSpec(PARENT_ID_COLUMN_NAME)))],
             self.name \o CHILD_TABLE_SEP \o column_name, value.xs, 1, row_dict)

add_value_to_row(self, column_name, value, row_dict) ==
    IF Falsy(value)
    THEN [self |-> self, row |-> row_dict, val |-> value, err |-> NoErr]
    ELSE add_value_of_type(self, column_name, value, row_dict,
                           from_example_value(value))

\* the rest of one turn of the loop over row_dict.items(), r being what
\* add_value_to_row returned for the item
add_field_done(row_dict, i, column_name, r) ==
    IF r.err # NoErr
    THEN [self |-> r.self, row |-> r.row,
          val |-> JObj(Put(row_dict.kv, column_name, r.val)), err |-> r.err]
    ELSE add_fields(r.self, JObj(Put(row_dict.kv, column_name, r.val)),
                    i + 1, r.row)

\* for column_name, value in row_dict.items(): (lines 146-148), from item i
add_fields(self, row_dict, i, processed_dict) ==
    IF i > Len(row_dict.kv)
    THEN [self |-> self, row |-> processed_dict, val |-> row_dict, err |-> NoErr]
    ELSE IF row_dict.kv[i][1] = self.id_column_name
    THEN add_fields(self, row_dict, i + 1, processed_dict)
    ELSE add_field_done(row_dict, i, row_dict.kv[i][1],
                        add_value_to_row(self, row_dict.kv[i][1],
                                         row_dict.kv[i][2], processed_dict))

\* a variant of the final append that puts the new row first
add_row_prepend(r) ==
    IF r.err # NoErr THEN r
    ELSE [self |-> [r.self EXCEPT !.rows = <<r.row>> \o @],
          row |-> r.row, val |-> r.val, err |-> NoErr]

\* self.rows.append(processed_dict) (line 149), r being what the loop over
\* the fields returned
add_row_append(r) ==
    IF r.err # NoErr THEN r
    ELSE [self |-> [r.self EXCEPT !.rows = Append(@, r.row)],
          row |-> r.row, val |-> r.val, err |-> NoErr]

\* the record with the value of its id column as add_value_to_row left it
with_id_value(row_dict, id_column_name, val) ==
    IF HasKey(row_dict.kv, id_column_name)
    THEN JObj(Put(row_dict.kv, id_column_name, val))
    ELSE row_dict

\* lines 146-149, r0 being what add_value_to_row returned for the id column
add_row_rest(row_dict, id_column_name, r0) ==
    IF r0.err # NoErr
    THEN [self |-> r0.self, row |-> r0.row,
          val |-> with_id_value(row_dict, id_column_name, r0.val),
          err |-> r0.err]
    ELSE add_row_append(
           add_fields(r0.self, with_id_value(row_dict, id_column_name, r0.val),
                      1, r0.row))

\* the id value is the record's own when it has the key, else the digest of
\* its sorted-key JSON text; the id column is processed first (lines 138-145)
add_row(self, row_dict) ==
    add_row_rest(
      row_dict, self.id_column_name,
      add_value_to_row(self, self.id_column_name,
                       IF HasKey(row_dict.kv, self.id_column_name)
                       THEN Get(row_dict.kv, self.id_column_name)
                       ELSE surrogate_id(row_dict),
                       <<>>))

RECURSIVE add_rows(_, _, _)
\* the rest of one turn of the loop of from_dicts, r being what add_row
\* returned
add_rows_done(dicts, i, r) ==
    IF r.err # NoErr THEN [self |-> NoTable, err |-> r.err]
    ELSE add_rows(r.self, dicts, i + 1)

\* for row_dict in dicts: table.add_row(row_dict) (lines 95-96), from item i;
\* a raised exception leaves the caller without a table
add_rows(self, dicts, i) ==
    IF i > Len(dicts) THEN [self |-> self, err |-> NoErr]
    ELSE add_rows_done(dicts, i, add_row(self, dicts[i]))

\* Table.from_dicts; id_column_name = "" stands for None (both are falsy)
from_dicts(name, dicts, id_column_name) ==
    IF Len(dicts) < 1 THEN [self |-> NoTable, err |-> EmptyTable]
    ELSE add_rows(Table(name,
                        IF id_column_name = "" THEN COMPUTED_ID_COLUMN_NAME
                        ELSE id_column_name,
                        NoSpec),
                  dicts, 1)

\* process_record of component.py: {id, createdTime, **fields}
process_record(record) ==
    JObj(dict_of(<< <<RECORD_ID_FIELD_NAME, record.id>>,
                    <<RECORD_CREATED_TIME_FIELD_NAME, record.createdTime>> >>
                 \o record.fields.kv))

---------------------------------------------------------------------------
(* The inputs: the records the source yields and the dictionaries passed   *)
(* to add_row directly.                                                    *)

SourceRecord(id, fields) ==
    [id |-> JStr(id), createdTime |-> JStr("t0"), fields |-> JObj(fields)]

SourceRecords ==
    { SourceRecord("r1", << <<"name", JStr("X")>> >>),
      SourceRecord("r2", << <<"items", JArr(<< JObj(<< <<"a", JInt(1)>> >>),
                                               JObj(<< <<"a", JInt(2)>> >>) >>)>> >>),
      SourceRecord("r1", << <<"items", JArr(<< JObj(<< <<"a", JInt(1)>> >>) >>)>> >>),
      SourceRecord("r3", << <<"addr", JObj(<< <<"city", JStr("X")>>,
                                              <<"zip", JObj(<< <<"code", JStr("1")>> >>)>> >>)>>,
                            <<"tags", JArr(<< JInt(1), JStr("x") >>)>> >>),
      SourceRecord("r4", << <<"bad", JArr(<< JInt(1), JObj(<<>>) >>)>> >>),
      SourceRecord("r5", << <<"count", JInt(0)>>, <<"name", JStr("")>> >>) }

DictPool ==
    { \* a plain leaf, with and without a natural id
      JObj(<< <<"name", JStr("X")>> >>),
      JObj(<< <<"record_id", JStr("r1")>>, <<"name", JStr("X")>> >>),
      \* falsy values of every kind
      JObj(<< <<"record_id", JStr("r6")>>, <<"count", JInt(0)>>,
              <<"name", JStr("")>>, <<"flag", JBool(FALSE)>>, <<"none", JNull>>,
              <<"addr", JObj(<<>>)>>, <<"tags", JArr(<<>>)>> >>),
      JObj(<< <<"addr", JObj(<< <<"zip", JInt(0)>> >>)>> >>),
      \* a falsy or nested natural id
      JObj(<< <<"record_id", JInt(0)>>, <<"name", JStr("X")>> >>),
      JObj(<< <<"record_id", JObj(<< <<"x", JInt(1)>> >>)>>, <<"flag", JBool(TRUE)>> >>),
      JObj(<< <<"record_id", JInt(0)>>,
              <<"items", JArr(<< JObj(<< <<"a", JInt(1)>> >>) >>)>>,
              <<"bad", JArr(<< JInt(1), JObj(<<>>) >>)>> >>),
      \* keys that can come in several orders
      JObj(<< <<"a", JInt(1)>>,
              <<"b", JObj(<< <<"c", JInt(2)>>, <<"d", JInt(3)>> >>)>> >>),
      \* arrays of scalars, top-level and in an object
      JObj(<< <<"tags", JArr(<< JInt(1), JStr("x"), JNull, JBool(TRUE) >>)>>,
              <<"addr", JObj(<< <<"tags", JArr(<< JStr("y") >>)>> >>)>> >>),
      \* nested objects
      JObj(<< <<"addr", JObj(<< <<"city", JStr("X")>>,
                                <<"zip", JObj(<< <<"code", JStr("1")>> >>)>> >>)>> >>),
      JObj(<< <<"", JObj(<< <<"a", JStr("X")>> >>)>> >>),
      JObj(<< <<"a", JObj(<< <<"b", JInt(1)>> >>)>>, <<"a_b", JInt(2)>> >>),
      JObj(<< <<"addr", JObj(<< <<"items",
                                  JArr(<< JObj(<< <<"a", JInt(1)>> >>) >>)>> >>)>> >>),
      \* arrays of objects
      JObj(<< <<"items", JArr(<< JObj(<< <<"a", JInt(1)>> >>),
                                 JObj(<< <<"a", JInt(2)>> >>) >>)>> >>),
      JObj(<< <<"record_id", JStr("r1")>>,
              <<"items", JArr(<< JObj(<< <<"parent_id", JStr("z")>>,
                                         <<"parent", JObj(<< <<"id", JStr("x")>> >>)>> >>) >>)>> >>),
      JObj(<< <<"items", JArr(<< JObj(<< <<"sub",
                                  JArr(<< JObj(<< <<"b", JInt(1)>> >>) >>)>> >>) >>)>> >>),
      JObj(<< <<"items", JArr(<< JObj(<< <<"computed_id", JInt(0)>>,
                                         <<"a", JInt(1)>> >>) >>)>> >>),
      JObj(<< <<"items", JArr(<< JObj(<< <<"computed_id", JInt(0)>>,
                                         <<"sub", JArr(<< JObj(<< <<"b", JInt(1)>> >>) >>)>> >>) >>)>> >>),
      JObj(<< <<"", JObj(<< <<"items",
                              JArr(<< JObj(<< <<"a", JInt(1)>> >>) >>)>> >>)>> >>),
      \* values no column type matches
      JObj(<< <<"bad", JArr(<< JInt(1), JObj(<<>>) >>)>> >>),
      JObj(<< <<"record_id", JStr("r7")>>,
              <<"items", JArr(<< JObj(<< <<"a", JInt(1)>> >>) >>)>>,
              <<"bad", JArr(<< JArr(<< JInt(1) >>) >>)>> >>),
      JObj(<< <<"a", JObj(<< <<"b_c", JArr(<< JInt(1), JObj(<<>>) >>)>>,
                             <<"b", JObj(<< <<"c", JInt(1)>> >>)>> >>)>> >>) }

\* the sequences over S of length at most n
RECURSIVE SeqsUpTo(_, _)
SeqsUpTo(S, n) ==
    IF n = 0 THEN {<<>>}
    ELSE LET shorter == SeqsUpTo(S, n - 1)
         IN shorter \cup {Append(q, x) : q \in shorter, x \in S}

---------------------------------------------------------------------------
(* The state machine.                                                      *)
(*   pc       "fetch": Component.run is in its loop over                   *)
(*            api_table.iterate; "built": a Table exists; "failed":        *)
(*            from_dicts raised and the exception left run; "processed" /  *)
(*            "warned": the if/else after from_dicts; "finalized";         *)
(*            "done": the state file is written                            *)
(*   batches  the batches the source has yielded, in arrival order         *)
(*   acc      record_batch_processed                                       *)
(*   id_arg   the id_column_name handed to from_dicts ("" for None)        *)
(*   table    the Table, with its tree of child tables                     *)
(*   before   the table as it was before the last call (history)           *)
(*   arg      the record handed to the last add_row, as it was on entry    *)
(*   held     that record object as the call left it (add_row writes       *)
(*            parent_id into the record's nested dictionaries in place)    *)
(*   err      the outcome of the last call                                 *)
(*   op       the last call                                                *)
(*   calls    the number of direct add_row calls                           *)
(*                                                                         *)
(* Spec is the Table of transformation.py under any sequence of add_row    *)
(* calls, from the table from_dicts constructs (line 94) before its loop;  *)
(* SpecRun is Component.run: the batches of the source accumulated, then   *)
(* one from_dicts over all of them, then the result processed, the tables  *)
(* finalized and the state written.                                        *)

\* table = cls(name=name, id_column_name=id_column_name) of from_dicts, with
\* the default of lines 92-93
Init ==
    /\ pc = "built"
    /\ batches = <<>>
    /\ acc = <<>>
    /\ id_arg \in {"", RECORD_ID_FIELD_NAME}
    /\ table = Table(DESTINATION_TABLE_NAME,
                     IF id_arg = "" THEN COMPUTED_ID_COLUMN_NAME ELSE id_arg,
                     NoSpec)
    /\ before = NoTable
    /\ arg = NoRecord
    /\ held = NoRecord
    /\ err = NoErr
    /\ op = "init"
    /\ calls = 0

\* the outcome r of add_row: the table and the record are mutated in place
AddRowReturned(r) ==
    /\ table' = r.self
    /\ held' = r.val
    /\ err' = r.err

\* the effect of table.add_row(row_dict) on the state
DoAddRow(row_dict, name) ==
    /\ pc = "built"
    /\ calls < MaxCalls
    /\ AddRowReturned(add_row(table, row_dict))
    /\ before' = table
    /\ arg' = row_dict
    /\ op' = name
    /\ calls' = calls + 1
    /\ UNCHANGED <<pc, batches, acc, id_arg>>

\* add_row with a new record
AddRow == \E row_dict \in DictPool : DoAddRow(row_dict, "add_row")

\* add_row with the record object of the last call
AddRowAgain == held # NoRecord /\ DoAddRow(held, "add_row_again")

Next == AddRow \/ AddRowAgain

Spec == Init /\ [][Next]_vars

\* run() before its loop over the batches (line 132); run passes
\* RECORD_ID_FIELD_NAME, the library default (None) is explored as well
InitRun ==
    /\ pc = "fetch"
    /\ batches = <<>>
    /\ acc = <<>>
    /\ id_arg \in {"", RECORD_ID_FIELD_NAME}
    /\ table = NoTable
    /\ before = NoTable
    /\ arg = NoRecord
    /\ held = NoRecord
    /\ err = NoErr
    /\ op = "init"
    /\ calls = 0

\* one turn of `for record_batch in api_table.iterate(...)` (lines 133-134)
FetchBatch ==
    /\ pc = "fetch"
    /\ Len(batches) < MaxBatches
    /\ \E record_batch \in SeqsUpTo(SourceRecords, MaxBatch) :
          /\ Len(acc) + Len(record_batch) <= MaxRecords
          /\ batches' = Append(batches, record_batch)
          /\ acc' = acc \o [i \in 1..Len(record_batch) |->
                              process_record(record_batch[i])]
    /\ op' = "fetch"
    /\ UNCHANGED <<pc, id_arg, table, before, arg, held, err, calls>>

\* what run does with the outcome r of from_dicts
FromDictsReturned(r) ==
    /\ table' = r.self
    /\ err' = r.err
    /\ pc' = IF r.err = NoErr THEN "built" ELSE "failed"

\* the loop is over: ResultTable.from_dicts(...) of run (lines 135-139)
RunFromDicts ==
    /\ pc = "fetch"
    /\ FromDictsReturned(from_dicts(DESTINATION_TABLE_NAME, acc, id_arg))
    /\ op' = "from_dicts"
    /\ UNCHANGED <<batches, acc, id_arg, before, arg, held, calls>>

\* bool(result_table): the Table dataclass defines neither __bool__ nor
\* __len__, so every table object is truthy
Truthy(t) == t # NoTable

\* `if result_table: self.process_table(...) else: logging.warning(...)`
\* (lines 141-144); what process_table writes out is not part of the state
ProcessResult ==
    /\ pc = "built"
    /\ pc' = IF Truthy(table) THEN "processed" ELSE "warned"
    /\ op' = "process"
    /\ UNCHANGED <<batches, acc, id_arg, table, before, arg, held, err, calls>>

\* self.finalize_all_tables() (line 149), reached when the try block ended
\* without an exception; an exception other than HTTPError leaves run at
\* once (pc = "failed" has no successor)
FinalizeAllTables ==
    /\ pc \in {"processed", "warned"}
    /\ pc' = "finalized"
    /\ op' = "finalize"
    /\ UNCHANGED <<batches, acc, id_arg, table, before, arg, held, err, calls>>

\* self.write_state_file(self.state) (line 150)
WriteStateFile ==
    /\ pc = "finalized"
    /\ pc' = "done"
    /\ op' = "write_state"
    /\ UNCHANGED <<batches, acc, id_arg, table, before, arg, held, err, calls>>

NextRun ==
    FetchBatch \/ RunFromDicts \/ ProcessResult \/ FinalizeAllTables \/ WriteStateFile

SpecRun == InitRun /\ [][NextRun]_vars

---------------------------------------------------------------------------
(* Vocabulary of the properties: the data model of the specification       *)
(* (section 3), stated on its own and not through the operators above.     *)

AddOps == {"add_row", "add_row_again"}
\* the last call was an add_row that returned
Added == op \in AddOps /\ err = NoErr
LastRow(t) == t.rows[Len(t.rows)]

RECURSIVE Tables(_)
\* every table of the tree of t
Tables(t) ==
    {t} \cup UNION {Tables(t.child_tables[i][2]) : i \in 1..Len(t.child_tables)}

RECURSIVE Links(_)
\* every <<parent table, key, child table>> of the tree of t
Links(t) ==
    {<<t, t.child_tables[i][1], t.child_tables[i][2]>> :
        i \in 1..Len(t.child_tables)}
    \cup UNION {Links(t.child_tables[i][2]) : i \in 1..Len(t.child_tables)}

\* Leaf, Object, LeafArray, ObjectArray of the data model
IsLeaf(v) == v.t \in {"null", "bool", "int", "str"}
IsObject(v) == v.t = "obj"
IsLeafArray(v) == v.t = "arr" /\ \A i \in 1..Len(v.xs) : IsLeaf(v.xs[i])
IsObjectArray(v) == v.t = "arr" /\ \A i \in 1..Len(v.xs) : IsObject(v.xs[i])
\* 0, "", false, null, an empty object, an empty array
IsFalsy(v) ==
    \/ v \in {JNull, JBool(FALSE), JInt(0), JStr("")}
    \/ v.t = "obj" /\ Len(v.kv) = 0
    \/ v.t = "arr" /\ Len(v.xs) = 0

\* the rows of the child table `key` of t (none when t has no such child)
ChildRows(t, key) ==
    IF t # NoTable /\ HasKey(t.child_tables, key)
    THEN Get(t.child_tables, key).rows ELSE <<>>

---------------------------------------------------------------------------
(* C1: every row of every table of the tree holds its table's id column,   *)
(* and the row an add_row has just appended holds under it the record's    *)
(* own value when the record has that field, else the computed surrogate.  *)
C1_IdColumnsPopulated ==
    /\ \A t \in Tables(table) :
          \A i \in 1..Len(t.rows) : HasKey(t.rows[i], t.id_column_name)
    /\ Added =>
          /\ HasKey(LastRow(table), table.id_column_name)
          /\ Get(LastRow(table), table.id_column_name) =
                IF HasKey(arg.kv, table.id_column_name)
                THEN Get(arg.kv, table.id_column_name)
                ELSE JStr(md5_hexdigest(dumps(arg, TRUE)))

---------------------------------------------------------------------------
(* C2: handing the same record object to add_row twice, in two calls that  *)
(* both return, adds the same parent row and the same child rows in every  *)
(* child table both times.                                                 *)

RECURSIVE NewRows(_, _)
\* what a call added to the tree: the rows appended to the table, and for
\* each child table that gained something, what was added to it
NewRows(old, new) ==
    [rows |-> SubSeq(new.rows, Len(old.rows) + 1, Len(new.rows)),
     children |->
        {e \in {<<new.child_tables[i][1],
                  NewRows(IF HasKey(old.child_tables, new.child_tables[i][1])
                          THEN Get(old.child_tables, new.child_tables[i][1])
                          ELSE Table("", "", NoSpec),
                          new.child_tables[i][2])>> :
                   i \in 1..Len(new.child_tables)} :
            e[2] # [rows |-> <<>>, children |-> {}]}]

C2_IdempotentFlatten ==
    [][(op \in AddOps /\ err = NoErr /\ op' = "add_row_again" /\ err' = NoErr)
          => NewRows(table, table') = NewRows(before, table)]_vars

---------------------------------------------------------------------------
(* C3: an add_row that returns, for a record whose field f holds an array  *)
(* of n objects, adds exactly n rows to the child table <table>__f, each   *)
(* with parent_id equal to the id of the parent row built from the record. *)
C3_ChildLinkage ==
    Added =>
       \A i \in 1..Len(arg.kv) :
          LET f == arg.kv[i][1]
              v == arg.kv[i][2]
              key == table.name \o "__" \o f
              was == Len(ChildRows(before, key))
              now == ChildRows(table, key)
          IN (IsObjectArray(v) /\ ~IsFalsy(v)) =>
                /\ Len(now) = was + Len(v.xs)
                /\ \A j \in 1..Len(v.xs) :
                      /\ HasKey(now[was + j], "parent_id")
                      /\ HasKey(LastRow(table), table.id_column_name)
                      /\ Get(now[was + j], "parent_id") =
                            Get(LastRow(table), table.id_column_name)

---------------------------------------------------------------------------
(* C4: falsy omission.                                                     *)

\* the fields of a record as the per-field dispatch meets them: a top-level
\* field that is an object is replaced by its flattened items
FlatFields(rec) ==
    UNION {IF rec.kv[i][2].t = "obj"
           THEN LET flat == flatten_dict(rec.kv[i][2].kv, rec.kv[i][1],
                                         SUBOBJECT_SEP, <<>>)
                IN {<<flat[j][1], flat[j][2][1]>> : j \in 1..Len(flat)}
           ELSE {<<rec.kv[i][1], rec.kv[i][2]>>} : i \in 1..Len(rec.kv)}

RECURSIVE NestedFields(_, _)
\* every field of a dictionary, top-level or nested in an object at any
\* depth, objects included, under the column name flatten_dict gives it
NestedFields(kv, parent_key) ==
    UNION {LET name == new_key_of(parent_key, SUBOBJECT_SEP, kv[i][1])
           IN {<<name, kv[i][2]>>}
              \cup (IF kv[i][2].t = "obj" THEN NestedFields(kv[i][2].kv, name)
                    ELSE {}) : i \in 1..Len(kv)}

\* the last add_row added rows to the child table of column c
ChildGrew(c) ==
    Len(ChildRows(table, table.name \o "__" \o c))
       > Len(ChildRows(before, table.name \o "__" \o c))

\* the child table `key` is as it was before the last add_row
ChildUntouched(key) ==
    IF HasKey(table.child_tables, key)
    THEN HasKey(before.child_tables, key)
         /\ Get(before.child_tables, key) = Get(table.child_tables, key)
    ELSE TRUE

(* C4 as claimed: after an add_row that returns, no field whose value is   *)
(* falsy has a column in the row or a child table created or changed, and  *)
(* every field whose value is not falsy, an object included, contributes   *)
(* a column or child rows.                                                 *)
C4_FalsyOmissionAsClaimed ==
    Added =>
       \A f \in NestedFields(arg.kv, "") :
          IF IsFalsy(f[2])
          THEN /\ ~HasKey(LastRow(table), f[1])
               /\ ChildUntouched(table.name \o "__" \o f[1])
          ELSE IF IsObject(f[2])
          THEN \E g \in NestedFields(f[2].kv, f[1]) :
                  HasKey(LastRow(table), g[1]) \/ ChildGrew(g[1])
          ELSE HasKey(LastRow(table), f[1]) \/ ChildGrew(f[1])

(* C4 as amended: after an add_row that returns, a falsy field writes no   *)
(* column and touches no child table: every column of the row is the       *)
(* surrogate id or the name of a non-falsy scalar or array-of-scalars      *)
(* field, every child table created or changed is that of a non-falsy      *)
(* array-of-objects field; and every flattened field that is a non-falsy   *)
(* scalar or array contributes a column or child rows.                     *)
C4_FalsyOmission ==
    Added =>
       /\ \A c \in Keys(LastRow(table)) :
             \/ c = table.id_column_name /\ ~HasKey(arg.kv, c)
             \/ \E f \in FlatFields(arg) :
                   /\ f[1] = c
                   /\ ~IsFalsy(f[2])
                   /\ IsLeaf(f[2]) \/ IsLeafArray(f[2])
       /\ \A key \in Keys(table.child_tables) :
             \/ ChildUntouched(key)
             \/ \E f \in FlatFields(arg) :
                   /\ key = table.name \o "__" \o f[1]
                   /\ ~IsFalsy(f[2])
                   /\ IsObjectArray(f[2])
       /\ \A f \in FlatFields(arg) :
             ~IsFalsy(f[2]) =>
                IF IsObjectArray(f[2]) THEN ChildGrew(f[1])
                ELSE HasKey(LastRow(table), f[1])

\* a record with falsy fields of several kinds beside a non-falsy one was
\* added to a table that already had a row
C4_Witness ==
    /\ Added
    /\ Len(table.rows) >= 2
    /\ \E f \in FlatFields(arg) : f[2] = JInt(0)
    /\ \E f \in FlatFields(arg) : f[2] = JArr(<<>>)
    /\ \E f \in FlatFields(arg) : ~IsFalsy(f[2])

---------------------------------------------------------------------------
(* C5: after an add_row that returns, every non-falsy scalar reached       *)
(* through a chain of nested objects k1, ..., kn is in the row under the   *)
(* column k1_k2_..._kn, unchanged.                                         *)

RECURSIVE JoinPath(_)
JoinPath(path) ==
    IF Len(path) = 1 THEN path[1] ELSE path[1] \o "_" \o JoinPath(Tail(path))

RECURSIVE ScalarLeaves(_, _)
\* <<chain of keys, scalar>> for every scalar reached through objects only
ScalarLeaves(kv, path) ==
    UNION {IF kv[i][2].t = "obj"
           THEN ScalarLeaves(kv[i][2].kv, Append(path, kv[i][1]))
           ELSE IF IsLeaf(kv[i][2]) THEN {<<Append(path, kv[i][1]), kv[i][2]>>}
           ELSE {} : i \in 1..Len(kv)}

C5_ObjectFlatten ==
    Added =>
       \A l \in ScalarLeaves(arg.kv, <<>>) :
          ~IsFalsy(l[2]) =>
             /\ HasKey(LastRow(table), JoinPath(l[1]))
             /\ Get(LastRow(table), JoinPath(l[1])) = l[2]

---------------------------------------------------------------------------
(* C6: surrogate id determinism.                                           *)

\* the rotations of a sequence and of its reverse
KeyOrders(d) ==
    LET n == Len(d)
        rot(k) == [i \in 1..n |-> d[((i + k - 1) % n) + 1]]
        rev(k) == [i \in 1..n |-> d[n - ((i + k - 1) % n)]]
    IN IF n = 0 THEN {d} ELSE {rot(k) : k \in 0..(n - 1)} \cup {rev(k) : k \in 0..(n - 1)}

RECURSIVE Reorderings(_)
RECURSIVE ReorderedMembers(_)
RECURSIVE ReorderedItems(_)
\* values with the same content as v and the keys of its dictionaries, at
\* every depth, in another insertion order
Reorderings(v) ==
    IF v.t = "obj"
    THEN UNION {{JObj(o) : o \in KeyOrders(kv)} : kv \in ReorderedMembers(v.kv)}
    ELSE IF v.t = "arr" THEN {JArr(xs) : xs \in ReorderedItems(v.xs)}
    ELSE {v}
ReorderedMembers(kv) ==
    IF kv = <<>> THEN {<<>>}
    ELSE {<<<<kv[1][1], x>>>> \o rest :
             x \in Reorderings(kv[1][2]), rest \in ReorderedMembers(Tail(kv))}
ReorderedItems(xs) ==
    IF xs = <<>> THEN {<<>>}
    ELSE {<<x>> \o rest : x \in Reorderings(xs[1]), rest \in ReorderedItems(Tail(xs))}

\* what add_row returned gave the id `id` to the row it added, if it added one
GaveId(r, id_column_name, id) ==
    r.err = NoErr =>
       /\ HasKey(LastRow(r.self), id_column_name)
       /\ Get(LastRow(r.self), id_column_name) = id

(* C6: when add_row has added a record that lacks the id column, the row   *)
(* has a surrogate id, and adding to any other table with that id column   *)
(* a record with the same content (its keys in any other insertion order,  *)
(* at any depth) gives the same surrogate id, whatever rows either table   *)
(* held before.                                                            *)
C6_SurrogateDeterminism ==
    (Added /\ ~HasKey(arg.kv, table.id_column_name)) =>
       /\ HasKey(LastRow(table), table.id_column_name)
       /\ \A r2 \in Reorderings(arg) :
             GaveId(add_row(Table("other", table.id_column_name, NoSpec), r2),
                    table.id_column_name,
                    Get(LastRow(table), table.id_column_name))

\* a record without its id column, whose keys can be ordered in more than
\* one way, was added to a table that already had rows
C6_Witness ==
    /\ Added
    /\ ~HasKey(arg.kv, table.id_column_name)
    /\ Len(table.rows) >= 2
    /\ Cardinality(Reorderings(arg)) >= 4
    /\ \E r2 \in Reorderings(arg) : dumps(r2, FALSE) # dumps(arg, FALSE)

---------------------------------------------------------------------------
(* C7: for every child table created by add_row, the delete-where spec     *)
(* exists, names the parent-id column with the operator eq, and its values *)
(* are exactly the ids of the parent rows that contributed rows to the     *)
(* child table.                                                            *)

\* the ids of the rows of parent p that have rows in child c
ContributingIds(p, c) ==
    {Get(p.rows[i], p.id_column_name) :
        i \in {i \in 1..Len(p.rows) :
                 /\ HasKey(p.rows[i], p.id_column_name)
                 /\ \E j \in 1..Len(c.rows) :
                       /\ HasKey(c.rows[j], PARENT_ID_COLUMN_NAME)
                       /\ Get(c.rows[j], PARENT_ID_COLUMN_NAME)
                             = Get(p.rows[i], p.id_column_name)}}

C7_DeleteSpecAccumulation ==
    \A l \in Links(table) :
       /\ l[3].delete_where_spec # NoSpec
       /\ l[3].delete_where_spec.column = PARENT_ID_COLUMN_NAME
       /\ l[3].delete_where_spec.operator = "eq"
       /\ l[3].delete_where_spec.values = ContributingIds(l[1], l[3])

---------------------------------------------------------------------------
(* C9: classification.                                                     *)

\* the four categories as the specification words them
Category(v) ==
    IF IsLeaf(v) THEN "ELEMENTARY"
    ELSE IF IsObject(v) THEN "OBJECT"
    ELSE IF IsLeafArray(v) THEN "ARRAY_OF_ELEMENTARY"
    ELSE IF IsObjectArray(v) THEN "ARRAY_OF_OBJECTS"
    ELSE "ValueError"

RECURSIVE SubValues(_)
\* v and every value nested in it
SubValues(v) ==
    {v} \cup (IF v.t = "obj" THEN UNION {SubValues(v.kv[i][2]) : i \in 1..Len(v.kv)}
              ELSE IF v.t = "arr" THEN UNION {SubValues(v.xs[i]) : i \in 1..Len(v.xs)}
              ELSE {})

RECURSIVE HasUnclassifiable(_)
\* a non-falsy value of none of the four categories is a field of v, of an
\* object nested in v or of an element of an array of objects nested in v
HasUnclassifiable(v) ==
    IF IsFalsy(v) THEN FALSE
    ELSE IF Category(v) = "ValueError" THEN TRUE
    ELSE IF v.t = "obj" THEN \E i \in 1..Len(v.kv) : HasUnclassifiable(v.kv[i][2])
    ELSE IF IsObjectArray(v) THEN \E i \in 1..Len(v.xs) : HasUnclassifiable(v.xs[i])
    ELSE FALSE

(* C9: every non-falsy value is classified as exactly one of the four      *)
(* categories, and add_row of a record holding a non-falsy value of none   *)
(* of them fails with the unexpected-type error instead of adding a row.   *)
C9_Classification ==
    op \in AddOps =>
       /\ \A v \in SubValues(arg) :
             ~IsFalsy(v) => from_example_value(v) = Category(v)
       /\ HasUnclassifiable(arg) =>
             /\ err = UnexpectedType
             /\ table.rows = before.rows

---------------------------------------------------------------------------
(* C10: when add_row raises, the table, its child tables and their         *)
(* delete-where specs are what they were before the call: no partial       *)
(* result is left behind.                                                  *)
C10_NoPartialResult ==
    (op \in AddOps /\ err # NoErr) => table = before

---------------------------------------------------------------------------
(* C8: order preservation over the batches of a run.                       *)

RECURSIVE ConcatTables(_, _)
RECURSIVE ConcatChildren(_, _, _)
\* the rows of a, then the rows of b; child tables of the same key
\* concatenated in the same way, the values of their delete specs united
ConcatTables(a, b) ==
    [name |-> a.name,
     id_column_name |-> a.id_column_name,
     delete_where_spec |->
        IF a.delete_where_spec = NoSpec THEN b.delete_where_spec
        ELSE IF b.delete_where_spec = NoSpec THEN a.delete_where_spec
        ELSE [a.delete_where_spec EXCEPT
                 !.values = @ \cup b.delete_where_spec.values],
     rows |-> a.rows \o b.rows,
     child_tables |-> ConcatChildren(a.child_tables, b.child_tables, 1)]
ConcatChildren(ca, cb, i) ==
    IF i > Len(cb) THEN ca
    ELSE ConcatChildren(
            IF HasKey(ca, cb[i][1])
            THEN Put(ca, cb[i][1], ConcatTables(Get(ca, cb[i][1]), cb[i][2]))
            ELSE Append(ca, cb[i]),
            cb, i + 1)

\* the table built from one batch alone
BatchTable(record_batch) ==
    from_dicts(DESTINATION_TABLE_NAME,
               [i \in 1..Len(record_batch) |-> process_record(record_batch[i])],
               id_arg).self

RECURSIVE ConcatBatches(_, _)
\* the tables of the non-empty batches bs[1..n], concatenated in batch order
ConcatBatches(bs, n) ==
    IF n = 0 THEN NoTable
    ELSE IF Len(bs[n]) = 0 THEN ConcatBatches(bs, n - 1)
    ELSE IF ConcatBatches(bs, n - 1) = NoTable THEN BatchTable(bs[n])
    ELSE ConcatTables(ConcatBatches(bs, n - 1), BatchTable(bs[n]))

\* the records of the batches in arrival order
RECURSIVE Flat(_)
Flat(bs) == IF bs = <<>> THEN <<>> ELSE Head(bs) \o Flat(Tail(bs))

\* the row add_row makes of one source record on its own
RowOf(record) ==
    LastRow(add_row(Table(DESTINATION_TABLE_NAME, table.id_column_name, NoSpec),
                    process_record(record)).self)

(* C8: when run has built the table from the batches B1..Bn it fetched,    *)
(* the table has one row per record, row i being the row of record i of    *)
(* B1, then B2, ..., then Bn, and the whole table tree (rows and child     *)
(* table rows alike) is the concatenation, in batch order, of the tables   *)
(* built from each batch alone.                                            *)
C8_OrderPreservation ==
    pc = "built" /\ op = "from_dicts" =>
       /\ Len(table.rows) = Len(Flat(batches))
       /\ \A i \in 1..Len(table.rows) : table.rows[i] = RowOf(Flat(batches)[i])
       /\ table = ConcatBatches(batches, Len(batches))

\* a table was built from two non-empty batches with different first
\* records, and a child table holds rows of both batches
C8_Witness ==
    /\ pc = "built" /\ op = "from_dicts"
    /\ Len(batches) = 2
    /\ Len(batches[1]) >= 1 /\ Len(batches[2]) >= 1
    /\ batches[1][1] # batches[2][1]
    /\ BatchTable(batches[1]).child_tables # <<>>
    /\ BatchTable(batches[2]).child_tables # <<>>
    /\ \E i \in 1..Len(table.child_tables) :
          Len(table.child_tables[i][2].rows) >= 3

---------------------------------------------------------------------------
(* C11: when the source has yielded zero records, building the table does  *)
(* not raise: once run is past its fetch loop with no record accumulated,  *)
(* no error has been raised and run has not been left by an exception (it  *)
(* goes on to finalize the tables and write the state).                    *)
C11_EmptyResultNonFatal ==
    (pc # "fetch" /\ Len(acc) = 0) => (err = NoErr /\ pc # "failed")

---------------------------------------------------------------------------
(* C12: a record without the field of the table's id column.               *)

MissingIdentifier == "MissingIdentifier"

\* the id column of the table was supplied by the caller
IdSupplied == id_arg # ""

RECURSIVE HasIdlessElement(_)
HasIdlessElement(v) ==
    IF v.t = "obj" THEN \E i \in 1..Len(v.kv) : HasIdlessElement(v.kv[i][2])
    ELSE IF IsObjectArray(v)
    THEN \E i \in 1..Len(v.xs) :
            \/ /\ HasKey(v.xs[i].kv, COMPUTED_ID_COLUMN_NAME)
               /\ LET id == Get(v.xs[i].kv, COMPUTED_ID_COLUMN_NAME)
                  IN IsFalsy(id) \/ IsObject(id) \/ IsObjectArray(id)
            \/ HasIdlessElement(v.xs[i])
    ELSE FALSE

---------------------------------------------------------------------------
---------------------------------------------------------------------------
(* C14: child-table naming.                                                *)

RECURSIVE ObjectArrayPaths(_, _)
\* the chains of keys that lead, through objects only, to the non-falsy
\* arrays of objects of a dictionary
ObjectArrayPaths(kv, path) ==
    UNION {IF kv[i][2].t = "obj"
           THEN ObjectArrayPaths(kv[i][2].kv, Append(path, kv[i][1]))
           ELSE IF IsObjectArray(kv[i][2]) /\ ~IsFalsy(kv[i][2])
           THEN {Append(path, kv[i][1])}
           ELSE {} : i \in 1..Len(kv)}

\* the keys of the child tables of t that the last add_row created
CreatedKeys == Keys(table.child_tables) \ Keys(before.child_tables)

(* C14: in every reachable state every entry of a child_tables map has the *)
(* child table's own name as its key, each key once; and after an add_row  *)
(* that returns, every non-falsy array of objects of the record, top-level *)
(* or nested in objects, has its rows in the child table registered in the *)
(* table being filled under that table's name + "__" + the keys of its     *)
(* path joined by "_", a table that is shared with the earlier records of  *)
(* the same field (its earlier rows are kept), and no other child table    *)
(* was created.                                                            *)
C14_ChildTableNaming ==
    /\ \A l \in Links(table) : l[2] = l[3].name
    /\ \A t \in Tables(table) :
          \A i, j \in 1..Len(t.child_tables) :
             t.child_tables[i][1] = t.child_tables[j][1] => i = j
    /\ Added =>
          /\ \A path \in ObjectArrayPaths(arg.kv, <<>>) :
                LET key == table.name \o "__" \o JoinPath(path)
                IN /\ HasKey(table.child_tables, key)
                   /\ Get(table.child_tables, key).name = key
                   /\ Len(ChildRows(table, key)) > Len(ChildRows(before, key))
                   /\ SubSeq(ChildRows(table, key), 1, Len(ChildRows(before, key)))
                         = ChildRows(before, key)
          /\ \A key \in CreatedKeys :
                \E path \in ObjectArrayPaths(arg.kv, <<>>) :
                   key = table.name \o "__" \o JoinPath(path)

============================================================================
